---- MODULE Spec2Model ----
(***************************************************************************)
(* A model of main.py, the Streamlit script of the RRB NTPC exam           *)
(* preparation app.  Streamlit runs the whole script once per user         *)
(* interaction of a session; st.session_state and the widget values        *)
(* survive from one run to the next, the script's local variables do not.  *)
(* The function load_pipelines is wrapped by st.cache_resource, a          *)
(* process-wide memo shared by the script runs of all sessions, which run  *)
(* in one thread each.                                                     *)
(*                                                                         *)
(* A script run is modelled as: the interaction that triggers it together  *)
(* with lines 19-25 (one step), then either the Settings view (lines       *)
(* 26-55, one step) or the call of load_pipelines at line 64 (a cache      *)
(* lookup, the acquisition of the memo's lock, the execution of the body:  *)
(* one step each, so the runs of several sessions interleave there)        *)
(* followed by the selected view's handler (lines 74-222, one step).       *)
(***************************************************************************)
EXTENDS Integers, Sequences, FiniteSets, TLC

VARIABLES
    pc,               \* per session: where its script run stands
    tabs,             \* per session: the sidebar radio's value (line 25)
    clicked,          \* per session: the run was triggered by a button click
    in_session_state, \* per session: the keys present in st.session_state
    qa_model,         \* per session: st.session_state.qa_model
    gen_model,        \* per session: st.session_state.gen_model
    chat_history,     \* per session: st.session_state.chat_history
    user_question,    \* per session: the value of the Chat text input (line 192)
    submitted,        \* per session: the messages the user entered in Chat, in order
    qa_pipeline,      \* per session: the script's variable qa_pipeline (line 64)
    generator,        \* per session: the script's variable generator (line 64)
    shown,            \* per session: what the current (or last) run rendered
    calls,            \* per session: the handles the current (or last) run invoked
    uncaught,         \* per session: the last run ended by an exception nobody caught
    uploaded_file,    \* per session: the document of the run's Upload view
    text,             \* per session: the text the run's Upload view extracted
    cache,            \* st.cache_resource's memo of load_pipelines
    lock,             \* the holder of the memo's compute lock
    executions,       \* per identifier pair: how often the body of load_pipelines ran
    failures,         \* how many executions of the body raised so far
    temp_pdf          \* whether the file temp.pdf exists

vars == <<pc, tabs, clicked, in_session_state, qa_model, gen_model, chat_history,
          user_question, submitted, qa_pipeline, generator, shown, calls, uncaught,
          uploaded_file, text, cache, lock, executions, failures, temp_pdf>>

(***************************************************************************)
(* Bounds of the model.                                                    *)
(***************************************************************************)
NumQAChoices == 2      \* the user picks among the first entries of QA_MODELS
NumGenChoices == 2     \* ... and among the first entries of GEN_MODELS
MaxLoadFailures == 1   \* executions of load_pipelines' body that raise
MaxTurns == 2          \* turns of a chat history
MaxSubmitted == 2      \* messages a user submits in Chat
MaxPages == 3          \* pages of an uploaded document

NumSessions == 2       \* sessions of the process

Sessions == 1..NumSessions
Messages == {"m1", "m2"}

(***************************************************************************)
(* Lines 7-16: the catalogs, display name -> model identifier, and the     *)
(* order of their entries (a dict keeps insertion order).                  *)
(***************************************************************************)
qa_model_display == <<"DistilBERT", "RoBERTa", "BERT Large">>
gen_model_display == <<"GPT-2", "Falcon 7B Instruct", "FLAN-T5 Base">>

QA_MODELS ==
    "DistilBERT" :> "distilbert-base-uncased-distilled-squad"
    @@ "RoBERTa" :> "deepset/roberta-base-squad2"
    @@ "BERT Large" :> "bert-large-uncased-whole-word-masking-finetuned-squad"

GEN_MODELS ==
    "GPT-2" :> "gpt2"
    @@ "Falcon 7B Instruct" :> "tiiuae/falcon-7b-instruct"
    @@ "FLAN-T5 Base" :> "google/flan-t5-base"

Values(d) == {d[k] : k \in DOMAIN d}

Min(a, b) == IF a < b THEN a ELSE b

\* The first n entries of a select box.
FirstEntries(display, n) == {display[i] : i \in 1..Min(n, Len(display))}

Menu == {"Home", "Upload Question Paper", "Generate Practice Questions",
         "Chat with AI", "Settings"}

NoModel == ""     \* the value of an identifier st.session_state does not hold
NoSession == 0

(***************************************************************************)
(* Handles.  Each call of transformers.pipeline creates a new object; a    *)
(* handle is identified by its role and the execution of load_pipelines'   *)
(* body that created it (the arguments, and which execution for them); it  *)
(* serves the model of its role.                                           *)
(***************************************************************************)
Handle(role, args, n) ==
    [role |-> role, model |-> IF role = "qa" THEN args[1] ELSE args[2], args |-> args, n |-> n]
NoHandle == Handle("none", <<NoModel, NoModel>>, 0)

(***************************************************************************)
(* Documents.  PyPDF2 either rejects the bytes (PdfReader raises) or gives *)
(* the pages; extract_text of a page returns a string, possibly empty,     *)
(* returns None, or raises.  A string is a sequence of characters.         *)
(***************************************************************************)
Page(kind, chars) == [kind |-> kind, chars |-> chars]
PageOutcomes ==
    {Page("none", <<>>), Page("raise", <<>>), Page("text", <<>>),
     Page("text", <<" ">>), Page("text", <<"a">>), Page("text", <<"b">>)}

Document(valid, pages) == [present |-> TRUE, valid |-> valid, pages |-> pages]
NoFile == [present |-> FALSE, valid |-> FALSE, pages |-> <<>>]

SeqsUpTo(S, n) == UNION {[1..k -> S] : k \in 0..n}

\* The documents of at most n pages, and the bytes that are no PDF.
Documents(n) ==
    {Document(TRUE, ps) : ps \in SeqsUpTo(PageOutcomes, n)} \cup {Document(FALSE, <<>>)}

Whitespace == {" ", "\n"}

\* str.strip(): the string without its leading and trailing whitespace.
RECURSIVE LStrip(_)
LStrip(str) ==
    IF str # <<>> /\ Head(str) \in Whitespace THEN LStrip(Tail(str)) ELSE str

RECURSIVE RStrip(_)
RStrip(str) ==
    IF str # <<>> /\ str[Len(str)] \in Whitespace
    THEN RStrip(SubSeq(str, 1, Len(str) - 1))
    ELSE str

Strip(str) == LStrip(RStrip(str))

\* Line 108, `if extracted:`, a mutation of it that keeps every string, and
\* lines 108-109.
Truthy(extracted) == extracted.kind = "text" /\ extracted.chars # <<>>

AppendPage_KeepsEmpty(acc, extracted) ==
    IF extracted.kind = "text" THEN acc \o extracted.chars \o <<"\n">> ELSE acc

AppendPage(acc, extracted) ==
    IF Truthy(extracted) THEN acc \o extracted.chars \o <<"\n">> ELSE acc

\* Lines 105-109: the loop over pdf_reader.pages, from page i on.
RECURSIVE ExtractLoop(_, _, _)
ExtractLoop(pages, i, acc) ==
    IF i > Len(pages) THEN acc ELSE ExtractLoop(pages, i + 1, AppendPage(acc, pages[i]))

\* Lines 104-109 raise when PdfReader rejects the bytes or a page's
\* extract_text raises.
ExtractionRaises(doc) ==
    \/ ~doc.valid
    \/ \E i \in 1..Len(doc.pages) : doc.pages[i].kind = "raise"

\* Line 111, `if text.strip():`, and a mutation of it that forgets the strip.
HasText_NoStrip(str) == str # <<>>

HasText(str) == Strip(str) # <<>>

(***************************************************************************)
(* The state before any session has run the script.                        *)
(***************************************************************************)
Init ==
    /\ pc = [s \in Sessions |-> "idle"]
    /\ tabs = [s \in Sessions |-> "Home"]
    /\ clicked = [s \in Sessions |-> FALSE]
    /\ in_session_state = [s \in Sessions |-> {}]
    /\ qa_model = [s \in Sessions |-> NoModel]
    /\ gen_model = [s \in Sessions |-> NoModel]
    /\ chat_history = [s \in Sessions |-> <<>>]
    /\ user_question = [s \in Sessions |-> ""]
    /\ submitted = [s \in Sessions |-> <<>>]
    /\ qa_pipeline = [s \in Sessions |-> NoHandle]
    /\ generator = [s \in Sessions |-> NoHandle]
    /\ shown = [s \in Sessions |-> {}]
    /\ calls = [s \in Sessions |-> {}]
    /\ uncaught = [s \in Sessions |-> FALSE]
    /\ uploaded_file = [s \in Sessions |-> NoFile]
    /\ text = [s \in Sessions |-> <<>>]
    /\ cache = <<>>
    /\ lock = NoSession
    /\ executions = <<>>
    /\ failures = 0
    /\ temp_pdf = FALSE

\* The variables of the process (the memo of load_pipelines), of the session
\* states and of the Upload view.
process_vars == <<cache, lock, executions, failures>>
session_vars == <<in_session_state, qa_model, gen_model, chat_history>>
upload_vars == <<uploaded_file, text, temp_pdf>>

(***************************************************************************)
(* Lines 19-25: the top of the script.  The identifiers st.session_state   *)
(* lacks get the first value of their catalog.  What the previous run      *)
(* rendered, invoked and read is gone.                                     *)
(***************************************************************************)
DefaultModel(catalog, display) == catalog[display[1]]

BeginRun(s) ==
    /\ in_session_state' =
           [in_session_state EXCEPT ![s] = @ \cup {"qa_model", "gen_model"}]
    /\ qa_model' = [qa_model EXCEPT ![s] =
           IF "qa_model" \in in_session_state[s] THEN @
           ELSE DefaultModel(QA_MODELS, qa_model_display)]
    /\ gen_model' = [gen_model EXCEPT ![s] =
           IF "gen_model" \in in_session_state[s] THEN @
           ELSE DefaultModel(GEN_MODELS, gen_model_display)]
    /\ shown' = [shown EXCEPT ![s] = {}]
    /\ calls' = [calls EXCEPT ![s] = {}]
    /\ uncaught' = [uncaught EXCEPT ![s] = FALSE]
    /\ uploaded_file' = [uploaded_file EXCEPT ![s] = NoFile]
    /\ text' = [text EXCEPT ![s] = <<>>]
    /\ pc' = [pc EXCEPT ![s] = "router"]
    /\ UNCHANGED <<chat_history, qa_pipeline, generator, process_vars, temp_pdf>>

(***************************************************************************)
(* The interactions that make Streamlit run the script: the page is loaded *)
(* or the menu entry chosen (or the script simply re-run), a message is    *)
(* entered in the Chat text input, a button the last run rendered is       *)
(* clicked.  The inputs of the other views are drawn when the view reads   *)
(* them.  The first run of a session shows the menu's first entry.         *)
(***************************************************************************)
Navigate(s, tab) ==
    /\ pc[s] = "idle"
    /\ tab = "Home" \/ in_session_state[s] # {}
    /\ tabs' = [tabs EXCEPT ![s] = tab]
    /\ clicked' = [clicked EXCEPT ![s] = FALSE]
    /\ UNCHANGED <<user_question, submitted>>
    /\ BeginRun(s)

Submit(s, m) ==
    /\ pc[s] = "idle"
    /\ "chat_input" \in shown[s]
    /\ m # user_question[s]
    /\ Len(submitted[s]) < MaxSubmitted
    /\ user_question' = [user_question EXCEPT ![s] = m]
    /\ submitted' = [submitted EXCEPT ![s] = IF m = "" THEN @ ELSE Append(@, m)]
    /\ clicked' = [clicked EXCEPT ![s] = FALSE]
    /\ UNCHANGED tabs
    /\ BeginRun(s)

Click(s) ==
    /\ pc[s] = "idle"
    /\ shown[s] \cap {"button_explain", "button_generate"} # {}
    /\ clicked' = [clicked EXCEPT ![s] = TRUE]
    /\ UNCHANGED <<tabs, user_question, submitted>>
    /\ BeginRun(s)

(***************************************************************************)
(* The end of a script run.  The script's variables are gone, a clicked     *)
(* button reads False again, and Streamlit drops the value of a widget     *)
(* that the run did not render.                                            *)
(***************************************************************************)
EndRun(s, rendered, raised) ==
    /\ pc' = [pc EXCEPT ![s] = "idle"]
    /\ shown' = [shown EXCEPT ![s] = rendered]
    /\ uncaught' = [uncaught EXCEPT ![s] = raised]
    /\ qa_pipeline' = [qa_pipeline EXCEPT ![s] = NoHandle]
    /\ generator' = [generator EXCEPT ![s] = NoHandle]
    /\ clicked' = [clicked EXCEPT ![s] = FALSE]
    /\ user_question' = [user_question EXCEPT ![s] =
           IF "chat_input" \in rendered THEN @ ELSE ""]
    /\ UNCHANGED <<tabs, submitted>>

(***************************************************************************)
(* Lines 26-55: the Settings view.  Each select box shows the entry of the *)
(* identifier in st.session_state (the reverse lookup of lines 36 and 43,  *)
(* which raises IndexError when no entry has it) unless the user picks     *)
(* another; the identifiers of the selected entries are stored and         *)
(* st.stop() ends the run before line 64.                                  *)
(***************************************************************************)
ReverseLookup(catalog, id) == {k \in DOMAIN catalog : catalog[k] = id}

Selected_Display(catalog, selected) == selected

Selected(catalog, selected) == catalog[selected]

SettingsView(s, qa_selected, gen_selected) ==
    /\ pc[s] = "router"
    /\ tabs[s] = "Settings"
    /\ IF ReverseLookup(QA_MODELS, qa_model[s]) = {}
          \/ ReverseLookup(GEN_MODELS, gen_model[s]) = {}
       THEN /\ EndRun(s, {"exception"}, TRUE)
            /\ UNCHANGED <<qa_model, gen_model>>
       ELSE /\ qa_model' = [qa_model EXCEPT ![s] = Selected(QA_MODELS, qa_selected)]
            /\ gen_model' = [gen_model EXCEPT ![s] = Selected(GEN_MODELS, gen_selected)]
            /\ EndRun(s, {"settings"}, FALSE)
    /\ UNCHANGED <<in_session_state, chat_history, calls, process_vars, upload_vars>>

(***************************************************************************)
(* Lines 58-64: load_pipelines under st.cache_resource, called with the    *)
(* identifiers of st.session_state.  A hit of the memo returns the stored  *)
(* handles.  A miss takes the memo's lock, looks again, and only then      *)
(* executes the body, stores its result and releases the lock; a body that *)
(* raises stores nothing, and the exception leaves the script at line 64,  *)
(* where nothing catches it.                                               *)
(***************************************************************************)
Args(s) == <<qa_model[s], gen_model[s]>>

\* st.cache_resource keys the memo on all the arguments of the call; a
\* mutation keys it on the first alone.
CacheKey_FirstOnly(args) == <<args[1], NoModel>>

CacheKey(args) == args

Key(s) == CacheKey(Args(s))

Returns(s, handles) ==
    /\ qa_pipeline' = [qa_pipeline EXCEPT ![s] = handles[1]]
    /\ generator' = [generator EXCEPT ![s] = handles[2]]
    /\ pc' = [pc EXCEPT ![s] = "page"]
    /\ UNCHANGED <<shown, uncaught, user_question, clicked>>

LoadLookup(s) ==
    /\ pc[s] = "router"
    /\ tabs[s] # "Settings"
    /\ IF Key(s) \in DOMAIN cache
       THEN Returns(s, cache[Key(s)])
       ELSE /\ pc' = [pc EXCEPT ![s] = "wait"]
            /\ UNCHANGED <<qa_pipeline, generator, shown, uncaught, user_question, clicked>>
    /\ UNCHANGED <<session_vars, tabs, submitted, calls, process_vars, upload_vars>>

LockFree_Unguarded(s) == TRUE

LockFree(s) == lock = NoSession

LoadAcquire(s) ==
    /\ pc[s] = "wait"
    /\ LockFree(s)
    /\ IF Key(s) \in DOMAIN cache
       THEN /\ Returns(s, cache[Key(s)])
            /\ UNCHANGED lock
       ELSE /\ lock' = s
            /\ pc' = [pc EXCEPT ![s] = "compute"]
            /\ UNCHANGED <<qa_pipeline, generator, shown, uncaught, user_question, clicked>>
    /\ UNCHANGED <<session_vars, tabs, submitted, calls, cache, executions, failures,
                   upload_vars>>

Count(key) == IF key \in DOMAIN executions THEN executions[key] ELSE 0

\* Lines 60-62: the handles an execution of the body creates.
Pipelines(args, n) == <<Handle("qa", args, n), Handle("gen", args, n)>>

LoadCompute(s, raises) ==
    /\ pc[s] = "compute"
    /\ executions' = (Key(s) :> (Count(Key(s)) + 1)) @@ executions
    /\ lock' = NoSession
    /\ IF raises
       THEN /\ failures < MaxLoadFailures
            /\ failures' = failures + 1
            /\ EndRun(s, {"exception"}, TRUE)
            /\ UNCHANGED cache
       ELSE /\ cache' = (Key(s) :> Pipelines(Args(s), Count(Key(s)) + 1)) @@ cache
            /\ Returns(s, Pipelines(Args(s), Count(Key(s)) + 1))
            /\ UNCHANGED <<failures, tabs, submitted>>
    /\ UNCHANGED <<session_vars, calls, upload_vars>>

(***************************************************************************)
(* Lines 74-90: the Home view renders the welcome text.                    *)
(***************************************************************************)
HomeView(s) ==
    /\ pc[s] = "page"
    /\ tabs[s] = "Home"
    /\ EndRun(s, {"home"}, FALSE)
    /\ UNCHANGED <<session_vars, calls, process_vars, upload_vars>>

(***************************************************************************)
(* Lines 93-142: the Upload view, as the record of what one run of it      *)
(* does: what it renders, which handles it invokes, the text it extracts,  *)
(* and whether temp.pdf exists when it is done.  Everything from line 100  *)
(* to line 139 is inside one try; the removal of temp.pdf (lines 138-139)  *)
(* is its last statement, and the except clause (lines 141-142) renders    *)
(* the error.                                                              *)
(***************************************************************************)
Extracted(doc) == ExtractLoop(doc.pages, 1, <<>>)

UploadOutcome(doc, question, click, qa_raises, gen_raises, file_before) ==
    IF ~doc.present
    THEN [shown |-> {"uploader"}, calls |-> {}, text |-> <<>>, temp_pdf |-> file_before]
    ELSE IF ExtractionRaises(doc)
    THEN [shown |-> {"uploader", "error"}, calls |-> {}, text |-> <<>>, temp_pdf |-> TRUE]
    ELSE IF ~HasText(Extracted(doc))
    THEN [shown |-> {"uploader", "warning_no_text"}, calls |-> {},
          text |-> Extracted(doc), temp_pdf |-> FALSE]
    ELSE IF question = ""
    THEN [shown |-> {"uploader", "pdf_content", "question_input"}, calls |-> {},
          text |-> Extracted(doc), temp_pdf |-> FALSE]
    ELSE IF qa_raises
    THEN [shown |-> {"uploader", "pdf_content", "question_input", "error"},
          calls |-> {"qa"}, text |-> Extracted(doc), temp_pdf |-> TRUE]
    ELSE IF ~click
    THEN [shown |-> {"uploader", "pdf_content", "question_input", "answer",
                     "button_explain"},
          calls |-> {"qa"}, text |-> Extracted(doc), temp_pdf |-> FALSE]
    ELSE IF gen_raises
    THEN [shown |-> {"uploader", "pdf_content", "question_input", "answer",
                     "button_explain", "error"},
          calls |-> {"qa", "gen"}, text |-> Extracted(doc), temp_pdf |-> TRUE]
    ELSE [shown |-> {"uploader", "pdf_content", "question_input", "answer",
                     "button_explain", "explanation"},
          calls |-> {"qa", "gen"}, text |-> Extracted(doc), temp_pdf |-> FALSE]

UploadView(s, doc, question, qa_raises, gen_raises) ==
    /\ pc[s] = "page"
    /\ tabs[s] = "Upload Question Paper"
    /\ LET out == UploadOutcome(doc, question, clicked[s], qa_raises, gen_raises, temp_pdf)
       IN /\ uploaded_file' = [uploaded_file EXCEPT ![s] = doc]
          /\ text' = [text EXCEPT ![s] = out.text]
          /\ calls' = [calls EXCEPT ![s] = out.calls]
          /\ temp_pdf' = out.temp_pdf
          /\ EndRun(s, out.shown, FALSE)
    /\ UNCHANGED <<session_vars, process_vars>>

(***************************************************************************)
(* Lines 145-176: the Generate view.  Nothing catches what the generation  *)
(* handle raises (lines 156-162).                                          *)
(***************************************************************************)
GenerateView(s, topic, gen_raises) ==
    /\ pc[s] = "page"
    /\ tabs[s] = "Generate Practice Questions"
    /\ IF ~clicked[s]
       THEN /\ EndRun(s, {"button_generate"}, FALSE)
            /\ UNCHANGED calls
       ELSE IF topic = ""
       THEN /\ EndRun(s, {"button_generate", "warning_no_topic"}, FALSE)
            /\ UNCHANGED calls
       ELSE /\ calls' = [calls EXCEPT ![s] = {"gen"}]
            /\ IF gen_raises
               THEN EndRun(s, {"button_generate", "exception"}, TRUE)
               ELSE EndRun(s, {"button_generate", "questions", "download"}, FALSE)
    /\ UNCHANGED <<session_vars, process_vars, upload_vars>>

(***************************************************************************)
(* Lines 179-222: the Chat view.  The history is created when absent and   *)
(* rendered; a non-empty text input is answered by the QA handle and the   *)
(* turn appended (line 205), whatever triggered the run; a click of        *)
(* "Explain this answer" then invokes the generation handle.  Nothing      *)
(* catches what either handle raises.                                      *)
(***************************************************************************)
Answer(handle, question) == [by |-> handle, to |-> question]

Turn(question, answer) == [question |-> question, answer |-> answer]

\* Lines 183-184, and a mutation that forgets the `not in` test.
InitialHistory_Always(present, history) == <<>>

InitialHistory(present, history) == IF present THEN history ELSE <<>>

ChatView(s, qa_raises, gen_raises) ==
    /\ pc[s] = "page"
    /\ tabs[s] = "Chat with AI"
    /\ in_session_state' = [in_session_state EXCEPT ![s] = @ \cup {"chat_history"}]
    /\ IF user_question[s] = ""
       THEN /\ chat_history' = [chat_history EXCEPT ![s] =
                  InitialHistory("chat_history" \in in_session_state[s], @)]
            /\ EndRun(s, {"chat_input"}, FALSE)
            /\ UNCHANGED calls
       ELSE /\ calls' = [calls EXCEPT ![s] =
                  IF ~qa_raises /\ clicked[s] THEN {"qa", "gen"} ELSE {"qa"}]
            /\ IF qa_raises
               THEN /\ EndRun(s, {"chat_input", "exception"}, TRUE)
                    /\ chat_history' = [chat_history EXCEPT ![s] =
                           InitialHistory("chat_history" \in in_session_state[s], @)]
               ELSE /\ Len(chat_history[s]) < MaxTurns
                    /\ chat_history' = [chat_history EXCEPT ![s] =
                           Append(InitialHistory("chat_history" \in in_session_state[s], @),
                                  Turn(user_question[s],
                                       Answer(qa_pipeline[s], user_question[s])))]
                    /\ IF ~clicked[s]
                       THEN EndRun(s, {"chat_input", "answer", "button_explain"}, FALSE)
                       ELSE IF gen_raises
                       THEN EndRun(s, {"chat_input", "answer", "button_explain",
                                       "exception"}, TRUE)
                       ELSE EndRun(s, {"chat_input", "answer", "button_explain",
                                       "explanation"}, FALSE)
    /\ UNCHANGED <<qa_model, gen_model, process_vars, upload_vars>>

(***************************************************************************)
(* The next-state relations.  Load(s) is a step of the call at line 64.    *)
(* Next is a step of any session, with every menu entry and every          *)
(* document; the other relations draw the sessions, the menu entries and   *)
(* the documents from smaller sets.                                        *)
(***************************************************************************)
Texts == {"", "t"}

Load(s) ==
    \/ LoadLookup(s)
    \/ LoadAcquire(s)
    \/ \E raises \in BOOLEAN : LoadCompute(s, raises)

Settings(s, nqa, ngen) ==
    \E qa_selected \in FirstEntries(qa_model_display, nqa),
       gen_selected \in FirstEntries(gen_model_display, ngen) :
        SettingsView(s, qa_selected, gen_selected)

Upload(s, D) ==
    \E doc \in D \cup {NoFile}, question \in Texts, qa_raises, gen_raises \in BOOLEAN :
        UploadView(s, doc, question, qa_raises, gen_raises)

Generate(s) ==
    \E topic \in Texts, gen_raises \in BOOLEAN : GenerateView(s, topic, gen_raises)

\* R: whether an invocation of a handle may raise.
Chat(s, R) ==
    \/ \E m \in Messages \cup {""} : Submit(s, m)
    \/ \E qa_raises, gen_raises \in R : ChatView(s, qa_raises, gen_raises)

Next ==
    \E s \in Sessions :
        \/ \E tab \in Menu : Navigate(s, tab)
        \/ Click(s)
        \/ Settings(s, Len(qa_model_display), Len(gen_model_display))
        \/ Load(s)
        \/ HomeView(s)
        \/ Upload(s, Documents(MaxPages))
        \/ Generate(s)
        \/ Chat(s, BOOLEAN)

Spec == Init /\ [][Next]_vars

\* Every session, between the Home and the Settings view with two QA models
\* to pick: the runs of the sessions interleave in load_pipelines.
NextLoad ==
    \E s \in Sessions :
        \/ \E tab \in {"Home", "Settings"} : Navigate(s, tab)
        \/ Settings(s, 2, 1)
        \/ Load(s)
        \/ HomeView(s)

SpecLoad == Init /\ [][NextLoad]_vars

\* One session between the Home and the Settings view, with the first
\* NumQAChoices and NumGenChoices models to pick.
NextSettings ==
    \E s \in {1} :
        \/ \E tab \in {"Home", "Settings"} : Navigate(s, tab)
        \/ Settings(s, NumQAChoices, NumGenChoices)
        \/ Load(s)
        \/ HomeView(s)

SpecSettings == Init /\ [][NextSettings]_vars

\* One session, with every menu entry, two QA models to pick and the
\* documents of at most one page.
NextSession ==
    \E s \in {1} :
        \/ \E tab \in Menu : Navigate(s, tab)
        \/ Click(s)
        \/ Settings(s, 2, 1)
        \/ Load(s)
        \/ HomeView(s)
        \/ Upload(s, Documents(1))
        \/ Generate(s)
        \/ Chat(s, BOOLEAN)

SpecSession == Init /\ [][NextSession]_vars

\* One session between the Home, the Settings and the Chat view, with handles
\* that never raise.
NextChat ==
    \E s \in {1} :
        \/ \E tab \in {"Home", "Settings", "Chat with AI"} : Navigate(s, tab)
        \/ Click(s)
        \/ Settings(s, 2, 1)
        \/ Load(s)
        \/ HomeView(s)
        \/ Chat(s, {FALSE})

SpecChat == Init /\ [][NextChat]_vars

\* One session in the Upload view, with the documents of at most MaxPages pages.
NextUpload ==
    \E s \in {1} :
        \/ \E tab \in {"Home", "Upload Question Paper"} : Navigate(s, tab)
        \/ Click(s)
        \/ Load(s)
        \/ HomeView(s)
        \/ Upload(s, Documents(MaxPages))

SpecUpload == Init /\ [][NextUpload]_vars

(***************************************************************************)
(* The claims.                                                             *)
(***************************************************************************)
Idle(s) == pc[s] = "idle"

\* The Upload view of session s has just handled an uploaded document.
Uploaded(s) == Idle(s) /\ uploaded_file[s].present

\* C1: when the Upload view has handled an uploaded document, on whatever
\* path (text extracted, nothing extracted, PdfReader or extract_text raising,
\* a handle raising), the file temp.pdf no longer exists.
C1_TempFileRemoved == \A s \in Sessions : Uploaded(s) => ~temp_pdf

Questions(history) == [i \in 1..Len(history) |-> history[i].question]

\* C2: between script runs, the chat history of a session holds exactly one
\* turn per message the user submitted, in the order of submission, whatever
\* else the user did in between.
C2_OneTurnPerMessage ==
    \A s \in Sessions : Idle(s) => Questions(chat_history[s]) = submitted[s]

RECURSIVE Sum(_, _)
Sum(f, S) == IF S = {} THEN 0 ELSE LET x == CHOOSE x \in S : TRUE IN f[x] + Sum(f, S \ {x})

\* The handles load_pipelines returned to the run of session s.
Returned(s) == <<qa_pipeline[s], generator[s]>>

\* C4, as claimed: for every identifier pair, the body of load_pipelines is
\* executed at most once.
C4_AtMostOneExecution == \A key \in DOMAIN executions : executions[key] <= 1

\* C4, amended: every execution of the body either raised or created the
\* handles the memo holds for its pair, so that at most one execution per pair
\* succeeds; every call that returns, returns the handles the memo holds for
\* the pair, so that calls with the same pair return identical handles, those
\* of the pair's one successful execution; and no entry of the memo is ever
\* removed or replaced.
C4_OneSuccessfulExecution ==
    /\ [](/\ Sum(executions, DOMAIN executions) = Cardinality(DOMAIN cache) + failures
          /\ \A s \in Sessions : pc[s] = "page" =>
                 /\ Key(s) \in DOMAIN cache
                 /\ Returned(s) = cache[Key(s)]
          /\ \A s, t \in Sessions :
                 pc[s] = "page" /\ pc[t] = "page" /\ Key(s) = Key(t)
                     => Returned(s) = Returned(t))
    /\ [][\A key \in DOMAIN cache : key \in DOMAIN cache' /\ cache'[key] = cache[key]]_vars

\* C4's case: two sessions hold the handles of the same pair, whose body ran
\* once, and a body raised before.
C4_Witness ==
    /\ pc[1] = "page" /\ pc[2] = "page" /\ Key(1) = Key(2)
    /\ executions[Key(1)] = 1
    /\ failures > 0

\* C5: a script run in which a handle was invoked does not end by an
\* exception nobody caught.
C5_InferenceErrorCaught ==
    \A s \in Sessions : Idle(s) /\ calls[s] # {} => ~uncaught[s]

\* The body of load_pipelines raised in the last run of session s: the run
\* ended by an exception before any view invoked a handle.
LoadFailed(s) == Idle(s) /\ uncaught[s] /\ calls[s] = {} /\ tabs[s] # "Settings"

\* C6: a failure to load the models is shown as an error, and does not leave
\* the script run as an exception nobody caught.
C6_LoadErrorCaught == \A s \in Sessions : ~LoadFailed(s)

NoTextPage(page) == page.kind = "none" \/ page.chars = <<>>
BlankPage(page) == page.kind # "raise" /\ \A i \in 1..Len(page.chars) : page.chars[i] \in Whitespace
AllPages(doc, P(_)) == doc.valid /\ \A i \in 1..Len(doc.pages) : P(doc.pages[i])

\* C7: when every page of the uploaded document yields no text, the text
\* extracted is the empty string; when every page yields no text or only
\* whitespace, the Upload view shows the warning and no error, does not show
\* the question prompt and invokes no handle.
C7_EmptyExtraction ==
    \A s \in Sessions : Uploaded(s) =>
        /\ AllPages(uploaded_file[s], NoTextPage) => text[s] = <<>>
        /\ AllPages(uploaded_file[s], BlankPage) =>
               /\ "warning_no_text" \in shown[s]
               /\ shown[s] \cap {"question_input", "answer", "explanation", "error"} = {}
               /\ calls[s] = {}

\* C7's case: a document with a page of whitespace among pages without text.
C7_Witness ==
    /\ Uploaded(1)
    /\ AllPages(uploaded_file[1], BlankPage)
    /\ ~AllPages(uploaded_file[1], NoTextPage)
    /\ Len(uploaded_file[1].pages) > 1
    /\ "warning_no_text" \in shown[1]

\* The pages that yield text, in page order.
Kept(pages) == SelectSeq(pages, LAMBDA page : page.kind = "text" /\ page.chars # <<>>)

\* The texts of pages, with one newline between two consecutive texts.
RECURSIVE Joined(_)
Joined(pages) ==
    IF pages = <<>> THEN <<>>
    ELSE IF Len(pages) = 1 THEN pages[1].chars
    ELSE pages[1].chars \o <<"\n">> \o Joined(Tail(pages))

C9_SettingsThenLoad ==
    /\ [](/\ \A s \in Sessions : pc[s] = "page" =>
                 /\ Key(s) \in DOMAIN cache
                 /\ Returned(s) = cache[Key(s)]
                 /\ qa_pipeline[s].model = qa_model[s]
                 /\ generator[s].model = gen_model[s]
          /\ \A k1, k2 \in DOMAIN cache :
                 k1 # k2 => cache[k1][1] # cache[k2][1] /\ cache[k1][2] # cache[k2][2])
    /\ [][/\ \A s \in Sessions :
                 pc[s] = "router" /\ tabs[s] = "Settings" /\ pc'[s] # pc[s]
                     => Idle(s)' /\ cache' = cache /\ executions' = executions
          /\ \A key \in DOMAIN cache : key \in DOMAIN cache' /\ cache'[key] = cache[key]
         ]_vars

\* C9's case: the user changed both models in Settings, and the next run got
\* the handles of the new pair while the memo still holds the default pair's.
C9_Witness ==
    /\ pc[1] = "page"
    /\ qa_model[1] # DefaultModel(QA_MODELS, qa_model_display)
    /\ gen_model[1] # DefaultModel(GEN_MODELS, gen_model_display)
    /\ <<DefaultModel(QA_MODELS, qa_model_display),
         DefaultModel(GEN_MODELS, gen_model_display)>> \in DOMAIN cache
    /\ Returned(1) = cache[Key(1)]

\* C10: the identifiers a session state holds are values of the catalogs (so
\* the reverse lookups of the Settings view find an entry and the view never
\* raises), the first run of a session sets them to the first value of each
\* catalog, and load_pipelines is only called with identifiers of the catalogs.
C10_CatalogIdentifiers ==
    /\ [](\A s \in Sessions :
            /\ in_session_state[s] # {} =>
                   /\ qa_model[s] \in Values(QA_MODELS)
                   /\ gen_model[s] \in Values(GEN_MODELS)
                   /\ ReverseLookup(QA_MODELS, qa_model[s]) # {}
                   /\ ReverseLookup(GEN_MODELS, gen_model[s]) # {}
            /\ pc[s] \in {"wait", "compute", "page"} =>
                   Args(s) \in Values(QA_MODELS) \X Values(GEN_MODELS)
            /\ ~(uncaught[s] /\ tabs[s] = "Settings"))
    /\ [](DOMAIN cache \cup DOMAIN executions \subseteq Values(QA_MODELS) \X Values(GEN_MODELS))
    /\ [][\A s \in Sessions :
            in_session_state[s] = {} /\ in_session_state'[s] # {}
                => /\ qa_model'[s] = QA_MODELS[qa_model_display[1]]
                   /\ gen_model'[s] = GEN_MODELS[gen_model_display[1]]
         ]_vars

\* C10's case: the Settings view has stored the second entry of each catalog,
\* and load_pipelines was called with them.
C10_Witness ==
    /\ qa_model[1] = QA_MODELS[qa_model_display[2]]
    /\ gen_model[1] = GEN_MODELS[gen_model_display[2]]
    /\ pc[1] = "page"

====
